---- MODULE Spec2Model ----
(***************************************************************************)
(* Model of roles/agnosticv/filter_plugins/combine.py: merge_hash, flatten *)
(* and FilterModule.combine_devel.                                         *)
(*                                                                         *)
(* Python objects live in a heap (a sequence of cells, a reference is an   *)
(* index), so that aliasing, shallow copies and item assignment are the    *)
(* ones the code performs.  Deref gives the value a reference denotes;     *)
(* Python's == on the modelled kinds (str, None, list, tuple, dict) is     *)
(* equality of these values.                                               *)
(***************************************************************************)
EXTENDS Integers, Sequences, FiniteSets, TLC

VARIABLES heap0, heap, pc, x, y, recursive, list_merge, terms, kwargs,
          mylist, levels, ret, exc

vars == <<heap0, heap, pc, x, y, recursive, list_merge, terms, kwargs,
          mylist, levels, ret, exc>>

----------------------------------------------------------------------------
(* Values and heap cells.  A value and a cell have the same four fields;   *)
(* in a value elems/map hold values, in a cell they hold references.       *)

Cell(kind, sv, elems, map) == [kind |-> kind, sv |-> sv, elems |-> elems, map |-> map]

Str(s)    == Cell("str", s, <<>>, <<>>)
NoneV     == Cell("none", "", <<>>, <<>>)
Undefined == Cell("undefined", "", <<>>, <<>>)
List(es)  == Cell("list", "", es, <<>>)
Tuple(es) == Cell("tuple", "", es, <<>>)
Dict(m)   == Cell("dict", "", <<>>, m)

RECURSIVE SetToSeq(_)
SetToSeq(S) ==
    IF S = {} THEN <<>>
    ELSE LET e == CHOOSE e \in S : TRUE IN <<e>> \o SetToSeq(S \ {e})

IndexOf(seq, e) == CHOOSE i \in 1..Len(seq) : seq[i] = e

\* the outcome of a call: the heap after it, the returned reference (0 when
\* the call raised) and the exception raised ("" when it returned)
Return(h, r) == [h |-> h, ret |-> r, exc |-> ""]
Raise(h, e)  == [h |-> h, ret |-> 0, exc |-> e]

\* a new object
Alloc(h, cell) == Return(Append(h, cell), Len(h) + 1)

RECURSIVE Deref(_, _)
Deref(h, r) ==
    LET c == h[r] IN
    Cell(c.kind, c.sv,
         [i \in 1..Len(c.elems) |-> Deref(h, c.elems[i])],
         [k \in DOMAIN c.map |-> Deref(h, c.map[k])])

\* the objects of a value, children first
RECURSIVE Build(_, _), BuildSeq(_, _)
BuildSeq(h, vs) ==
    IF vs = <<>> THEN [refs |-> <<>>, h |-> h]
    ELSE LET b    == Build(h, Head(vs))
             rest == BuildSeq(b.h, Tail(vs))
         IN [refs |-> <<b.ret>> \o rest.refs, h |-> rest.h]
Build(h, v) ==
    LET ks == SetToSeq(DOMAIN v.map)
        es == BuildSeq(h, v.elems)
        ms == BuildSeq(es.h, [i \in 1..Len(ks) |-> v.map[ks[i]]])
    IN Alloc(ms.h, Cell(v.kind, v.sv, es.refs,
                        [k \in DOMAIN v.map |-> ms.refs[IndexOf(ks, k)]]))

\* Python's == and `in` on the modelled kinds
PyEq(h, a, b) == Deref(h, a) = Deref(h, b)
PyIn(h, z, l) == \E i \in 1..Len(h[l].elems) : PyEq(h, z, h[l].elems[i])

isinstance_MutableMapping(h, r)  == h[r].kind = "dict"
\* (mutant) a str taken for a sequence
isinstance_MutableSequence_str(h, r) == h[r].kind \in {"list", "str"}
isinstance_MutableSequence(h, r) == h[r].kind = "list"
is_sequence(h, r)                == h[r].kind \in {"list", "tuple"}

----------------------------------------------------------------------------
(* dict and list operations used by merge_hash *)

\* (mutant) no copy: the dict itself
copy_alias(h, d) == Return(h, d)
\* d.copy(): a new dict with the same items (shallow)
copy(h, d) == Alloc(h, h[d])

\* d[key] = v, in place
setitem(h, d, key, v) ==
    [h EXCEPT ![d].map = [k \in DOMAIN @ \cup {key} |-> IF k = key THEN v ELSE @[k]]]

\* d.update(e), in place
update(h, d, e) ==
    [h EXCEPT ![d].map = [k \in DOMAIN @ \cup DOMAIN h[e].map |->
                              IF k \in DOMAIN h[e].map THEN h[e].map[k] ELSE @[k]]]

\* a + b: a new list
concat(h, a, b) == Alloc(h, List(h[a].elems \o h[b].elems))

\* (mutant) the elements are also de-duplicated among themselves
remove_present_dedup(h, x_value, y_value) ==
    LET xs   == h[x_value].elems
        kept == SelectSeq([i \in 1..Len(xs) |-> [i |-> i, z |-> xs[i]]],
                          LAMBDA e : /\ ~PyIn(h, e.z, y_value)
                                     /\ \A j \in 1..(e.i - 1) : ~PyEq(h, xs[j], e.z))
    IN Alloc(h, List([n \in 1..Len(kept) |-> kept[n].z]))
\* [z for z in x_value if z not in y_value]: a new list
remove_present(h, x_value, y_value) ==
    Alloc(h, List(SelectSeq(h[x_value].elems, LAMBDA z : ~PyIn(h, z, y_value))))

ListMergePolicies == {"replace", "keep", "append", "prepend", "append_rp", "prepend_rp"}

\* _validate_mutable_mappings: TRUE when it returns, FALSE when it raises
_validate_mutable_mappings(h, a, b) ==
    isinstance_MutableMapping(h, a) /\ isinstance_MutableMapping(h, b)

\* (mutant) only `x == {}`
x_empty(h, a, b) == DOMAIN h[a].map = {}
\* the fast path test `x == {} or x == y`
x_empty_or_equal(h, a, b) == DOMAIN h[a].map = {} \/ PyEq(h, a, b)

\* the fast path test `not recursive and list_merge == 'replace'`
use_update(rec, lm) == ~rec /\ lm = "replace"

\* the branch for two lists: the list to have at x[key] ('keep': the one it has)
merge_lists(h, x_value, y_value, lm) ==
    IF lm = "replace" THEN Return(h, y_value)
    ELSE IF lm = "append" THEN concat(h, x_value, y_value)
    ELSE IF lm = "prepend" THEN concat(h, y_value, x_value)
    ELSE IF lm = "append_rp" THEN
        LET f == remove_present(h, x_value, y_value) IN concat(f.h, f.ret, y_value)
    ELSE IF lm = "prepend_rp" THEN
        LET f == remove_present(h, x_value, y_value) IN concat(f.h, y_value, f.ret)
    ELSE Return(h, x_value)

RECURSIVE merge_hash(_, _, _, _, _), merge_mappings(_, _, _, _, _),
          merge_key(_, _, _, _, _, _), merge_items(_, _, _, _, _, _)

\* (mutant) list_merge is not passed down
merge_mappings_default(h, x_value, y_value, rec, lm) ==
    IF rec THEN merge_hash(h, x_value, y_value, rec, "replace")
    ELSE Return(h, y_value)
\* the branch for two dicts
merge_mappings(h, x_value, y_value, rec, lm) ==
    IF rec THEN merge_hash(h, x_value, y_value, rec, lm)
    ELSE Return(h, y_value)

\* one iteration of `for key, y_value in iteritems(y)`; xc is the copy of x
merge_key(h, xc, key, y_value, rec, lm) ==
    IF key \notin DOMAIN h[xc].map THEN Return(setitem(h, xc, key, y_value), xc)
    ELSE
        LET x_value == h[xc].map[key] IN
        IF isinstance_MutableMapping(h, x_value) /\ isinstance_MutableMapping(h, y_value) THEN
            LET m == merge_mappings(h, x_value, y_value, rec, lm) IN
            IF m.exc # "" THEN m ELSE Return(setitem(m.h, xc, key, m.ret), xc)
        ELSE IF isinstance_MutableSequence(h, x_value) /\ isinstance_MutableSequence(h, y_value) THEN
            LET m == merge_lists(h, x_value, y_value, lm) IN
            Return(setitem(m.h, xc, key, m.ret), xc)
        ELSE Return(setitem(h, xc, key, y_value), xc)

\* the loop over the items of y that are still to visit
merge_items(h, xc, yy, keys, rec, lm) ==
    IF keys = {} THEN Return(h, xc)
    ELSE LET key  == CHOOSE k \in keys : TRUE
             step == merge_key(h, xc, key, h[yy].map[key], rec, lm)
         IN IF step.exc # "" THEN step
            ELSE merge_items(step.h, xc, yy, keys \ {key}, rec, lm)

merge_hash(h, a, b, rec, lm) ==
    IF lm \notin ListMergePolicies THEN Raise(h, "InvalidPolicy")
    ELSE IF ~_validate_mutable_mappings(h, a, b) THEN Raise(h, "TypeMismatch")
    ELSE IF x_empty_or_equal(h, a, b) THEN copy(h, b)
    ELSE LET c == copy(h, a) IN
         IF use_update(rec, lm) THEN Return(update(c.h, c.ret, b), c.ret)
         ELSE merge_items(c.h, c.ret, b, DOMAIN h[b].map, rec, lm)

----------------------------------------------------------------------------
(* flatten(mylist, levels) *)

\* levels: None or an int
NoLevels  == [is_none |-> TRUE, n |-> 0]
Levels(n) == [is_none |-> FALSE, n |-> n]

\* ret.append(e) and ret.extend(l), in place
append(h, l, e) == [h EXCEPT ![l].elems = Append(@, e)]
extend(h, l, m) == [h EXCEPT ![l].elems = @ \o h[m].elems]

\* element in (None, 'None', 'null')
is_undefined_item(h, element) ==
    \/ h[element].kind = "none"
    \/ h[element].kind = "str" /\ h[element].sv \in {"None", "null"}

RECURSIVE flatten(_, _, _), flatten_loop(_, _, _, _, _)

\* (mutant) `continue`: the item is skipped and the loop goes on
on_undefined_continue(h, l, i, lv, out) == flatten_loop(h, l, i + 1, lv, out)
\* `break`: the loop ends, what follows element i of mylist is not visited
on_undefined(h, l, i, lv, out) == Return(h, out)

\* the loop from element i of mylist on; out is ret
flatten_loop(h, l, i, lv, out) ==
    IF i > Len(h[l].elems) THEN Return(h, out)
    ELSE LET element == h[l].elems[i] IN
         IF is_undefined_item(h, element) THEN on_undefined(h, l, i, lv, out)
         ELSE IF is_sequence(h, element) THEN
             IF lv.is_none THEN
                 LET f == flatten(h, element, NoLevels)
                 IN flatten_loop(extend(f.h, out, f.ret), l, i + 1, lv, out)
             ELSE IF lv.n >= 1 THEN
                 LET f == flatten(h, element, Levels(lv.n - 1))
                 IN flatten_loop(extend(f.h, out, f.ret), l, i + 1, lv, out)
             ELSE flatten_loop(append(h, out, element), l, i + 1, lv, out)
         ELSE flatten_loop(append(h, out, element), l, i + 1, lv, out)

flatten(h, l, lv) ==
    LET r == Alloc(h, List(<<>>)) IN flatten_loop(r.h, l, 1, lv, r.ret)

----------------------------------------------------------------------------
(* FilterModule.combine_devel *)

\* ansible.template.recursive_check_defined: TRUE when it returns, FALSE
\* when it raises because an Undefined is found
RECURSIVE recursive_check_defined(_, _)
recursive_check_defined(h, item) ==
    IF h[item].kind = "dict" THEN
        \A k \in DOMAIN h[item].map : recursive_check_defined(h, h[item].map[k])
    ELSE IF h[item].kind = "list" THEN
        \A i \in 1..Len(h[item].elems) : recursive_check_defined(h, h[item].elems[i])
    ELSE h[item].kind # "undefined"

\* result = merge_hash(dictionary, result, recursive, list_merge)
merge_step(h, dictionary, result, rec, lm) == merge_hash(h, dictionary, result, rec, lm)

\* the loop over reversed(dictionaries), dictionaries[i] the next to visit
RECURSIVE fold_high_to_low(_, _, _, _, _, _)
fold_high_to_low(h, dictionaries, i, result, rec, lm) ==
    IF i = 0 THEN Return(h, result)
    ELSE LET m == merge_step(h, h[dictionaries].elems[i], result, rec, lm)
         IN IF m.exc # "" THEN m
            ELSE fold_high_to_low(m.h, dictionaries, i - 1, m.ret, rec, lm)

\* (mutant) list_merge is validated before the documents are counted
combine_devel_validating(h, t, kw, rec, lm) ==
    IF kw THEN Raise(h, "ArgumentError")
    ELSE LET f            == flatten(h, t, Levels(1))
             dictionaries == f.ret
             n            == Len(f.h[dictionaries].elems)
         IN IF ~recursive_check_defined(f.h, dictionaries) THEN Raise(f.h, "UnresolvedValue")
            ELSE IF lm \notin ListMergePolicies THEN Raise(f.h, "InvalidPolicy")
            ELSE IF n = 0 THEN Alloc(f.h, Dict(<<>>))
            ELSE IF n = 1 THEN Return(f.h, f.h[dictionaries].elems[1])
            ELSE fold_high_to_low(f.h, dictionaries, n - 1, f.h[dictionaries].elems[n],
                                  rec, lm)
\* kw: keyword arguments other than recursive and list_merge were given
combine_devel(h, t, kw, rec, lm) ==
    IF kw THEN Raise(h, "ArgumentError")
    ELSE LET f            == flatten(h, t, Levels(1))
             dictionaries == f.ret
             n            == Len(f.h[dictionaries].elems)
         IN IF ~recursive_check_defined(f.h, dictionaries) THEN Raise(f.h, "UnresolvedValue")
            ELSE IF n = 0 THEN Alloc(f.h, Dict(<<>>))
            ELSE IF n = 1 THEN Return(f.h, f.h[dictionaries].elems[1])
            ELSE fold_high_to_low(f.h, dictionaries, n - 1, f.h[dictionaries].elems[n],
                                  rec, lm)

----------------------------------------------------------------------------
(* The inputs *)

MaxListLen == 2

Scalars   == {"a", "b"}
InnerKeys == {"p", "q"}
Keys      == {"k", "m"}

SeqsUpTo(S, n) == UNION {[1..i -> S] : i \in 0..n}
PFun(K, V)     == UNION {[D -> V] : D \in SUBSET K}

Strs   == {Str(s) : s \in Scalars}
Lists  == {List(es) : es \in SeqsUpTo(Strs, MaxListLen)}
Leaves == Strs \cup Lists

\* nested mappings: "p" holds any leaf, "q" a fixed string
InnerDicts == {Dict(m) : m \in {f \in PFun(InnerKeys, Leaves) :
                                  "q" \in DOMAIN f => f["q"] = Str("a")}}

\* documents: "k" holds a leaf or a nested mapping, "m" a fixed string
Docs == {Dict(m) : m \in {f \in PFun(Keys, Leaves \cup InnerDicts) :
                            "m" \in DOMAIN f => f["m"] = Str("a")}}

\* operands that are no mappings
NonMappings == {Str("a"), List(<<Str("a")>>)}

ListMergeArgs == ListMergePolicies \cup {"bogus"}

\* inputs of flatten: strings, the three markers, and lists nested twice
MaxFlatLen == 2
MaxLevels  == 2

FlatAtoms == {Str("a"), Str("b"), NoneV, Str("None"), Str("null")}
Nested1   == {List(es) : es \in SeqsUpTo({Str("a"), Str("b"), NoneV}, 2)}
Nested2   == {List(es) : es \in SeqsUpTo({Str("a"), NoneV, List(<<Str("b")>>),
                                          List(<<NoneV, Str("b")>>)}, 2)}
FlatItems == FlatAtoms \cup Nested1 \cup Nested2

LevelsArgs == {NoLevels} \cup {Levels(n) : n \in 0..MaxLevels}

\* inputs of combine_devel: a few documents, None, an Undefined, a string
MaxTerms == 3

CombineDocs  == {Dict(<<>>)} \cup
                {Dict([k \in {"k"} |-> v]) :
                    v \in {Str("a"), List(<<Str("a")>>),
                           Dict([k \in {"p"} |-> Str("a")]),
                           Dict([k \in {"q"} |-> Str("a")])}}
CombineItems == CombineDocs \cup {NoneV, Undefined, Str("a")}

\* combine(d1, d2, ...) and combine([d1, d2, ...])
TermsArgs == LET S == SeqsUpTo(CombineItems, MaxTerms)
             IN {Tuple(es) : es \in S} \cup {Tuple(<<List(es)>>) : es \in S}

----------------------------------------------------------------------------
(* merge_hash(x, y, recursive, list_merge) called on two operands *)

InitMergeOn(Operands) ==
    /\ \E xv \in Operands, yv \in Operands, same \in BOOLEAN :
        \* same: merge_hash(d, d), both operands the one object
        LET bx == Build(<<>>, xv)
            by == IF same THEN bx ELSE Build(bx.h, yv)
        IN /\ same => xv = yv
           /\ heap0 = by.h
           /\ heap = by.h
           /\ x = bx.ret
           /\ y = by.ret
    /\ recursive \in BOOLEAN
    /\ list_merge \in ListMergeArgs
    /\ pc = "merge_hash"
    /\ terms = 0 /\ kwargs = FALSE /\ mylist = 0 /\ levels = 0
    /\ ret = 0 /\ exc = ""

MergeHashReturn ==
    /\ pc = "merge_hash"
    /\ LET r == merge_hash(heap, x, y, recursive, list_merge) IN
        /\ r.exc = ""
        /\ heap' = r.h /\ ret' = r.ret /\ exc' = ""
    /\ pc' = "done"
    /\ UNCHANGED <<heap0, x, y, recursive, list_merge, terms, kwargs, mylist, levels>>

MergeHashRaise ==
    /\ pc = "merge_hash"
    /\ LET r == merge_hash(heap, x, y, recursive, list_merge) IN
        /\ r.exc # ""
        /\ heap' = r.h /\ ret' = 0 /\ exc' = r.exc
    /\ pc' = "done"
    /\ UNCHANGED <<heap0, x, y, recursive, list_merge, terms, kwargs, mylist, levels>>

InitMerge == InitMergeOn(Docs \cup NonMappings)

NextMerge == MergeHashReturn \/ MergeHashRaise

SpecMerge == InitMerge /\ [][NextMerge]_vars

----------------------------------------------------------------------------
(* flatten(mylist, levels) called on a list *)

InitFlatten ==
    /\ \E es \in SeqsUpTo(FlatItems, MaxFlatLen) :
        LET b == Build(<<>>, List(es))
        IN heap0 = b.h /\ heap = b.h /\ mylist = b.ret
    /\ levels \in LevelsArgs
    /\ pc = "flatten"
    /\ x = 0 /\ y = 0 /\ recursive = FALSE /\ list_merge = "replace"
    /\ terms = 0 /\ kwargs = FALSE
    /\ ret = 0 /\ exc = ""

FlattenReturn ==
    /\ pc = "flatten"
    /\ LET r == flatten(heap, mylist, levels) IN
        heap' = r.h /\ ret' = r.ret /\ exc' = r.exc
    /\ pc' = "done"
    /\ UNCHANGED <<heap0, x, y, recursive, list_merge, terms, kwargs, mylist, levels>>

NextFlatten == FlattenReturn

SpecFlatten == InitFlatten /\ [][NextFlatten]_vars

----------------------------------------------------------------------------
(* combine_devel called on its positional and keyword arguments *)

InitCombine ==
    /\ \E t \in TermsArgs :
        LET b == Build(<<>>, t)
        IN heap0 = b.h /\ heap = b.h /\ terms = b.ret
    /\ kwargs \in BOOLEAN
    /\ recursive \in BOOLEAN
    /\ list_merge \in ListMergeArgs
    /\ pc = "combine_devel"
    /\ x = 0 /\ y = 0 /\ mylist = 0 /\ levels = 0
    /\ ret = 0 /\ exc = ""

CombineReturn ==
    /\ pc = "combine_devel"
    /\ LET r == combine_devel(heap, terms, kwargs, recursive, list_merge) IN
        /\ r.exc = ""
        /\ heap' = r.h /\ ret' = r.ret /\ exc' = ""
    /\ pc' = "done"
    /\ UNCHANGED <<heap0, x, y, recursive, list_merge, terms, kwargs, mylist, levels>>

CombineRaise ==
    /\ pc = "combine_devel"
    /\ LET r == combine_devel(heap, terms, kwargs, recursive, list_merge) IN
        /\ r.exc # ""
        /\ heap' = r.h /\ ret' = 0 /\ exc' = r.exc
    /\ pc' = "done"
    /\ UNCHANGED <<heap0, x, y, recursive, list_merge, terms, kwargs, mylist, levels>>

NextCombine == CombineReturn \/ CombineRaise

SpecCombine == InitCombine /\ [][NextCombine]_vars

----------------------------------------------------------------------------
(* Both entry points that take list_merge *)

InitPolicy == InitMergeOn(CombineDocs \cup NonMappings) \/ InitCombine

NextPolicy == MergeHashReturn \/ MergeHashRaise \/ CombineReturn \/ CombineRaise

SpecPolicy == InitPolicy /\ [][NextPolicy]_vars

(* Every entry point *)

Init == InitMerge \/ InitFlatten \/ InitCombine

Next == NextMerge \/ NextFlatten \/ NextCombine

Spec == Init /\ [][Next]_vars

----------------------------------------------------------------------------
(* What the claims speak of *)

Returned == pc = "done" /\ exc = ""

\* the operands before the call and the result, as values
Xv == Deref(heap0, x)
Yv == Deref(heap0, y)
Rv == Deref(heap, ret)

InBoth(xv, yv)     == DOMAIN xv.map \cap DOMAIN yv.map
BothDict(xv, yv, k) == k \in InBoth(xv, yv) /\ xv.map[k].kind = "dict" /\ yv.map[k].kind = "dict"
BothSeq(xv, yv, k)  == k \in InBoth(xv, yv) /\ xv.map[k].kind = "list" /\ yv.map[k].kind = "list"

\* C1: merge_hash leaves x and y, nested mappings and sequences included,
\* as they were before the call, whether it returns or raises.
C1_NonMutation ==
    pc = "done" => /\ Deref(heap, x) = Xv
                   /\ Deref(heap, y) = Yv

\* the general path ran, merged a nested mapping and combined two lists
C1_Witness ==
    /\ Returned /\ recursive /\ list_merge = "append"
    /\ \E k \in Keys : /\ BothDict(Xv, Yv, k)
                       /\ \E p \in InnerKeys : /\ BothSeq(Xv.map[k], Yv.map[k], p)
                                               /\ Rv.map[k].map[p] # Xv.map[k].map[p]
                                               /\ Rv.map[k].map[p] # Yv.map[k].map[p]
    /\ Deref(heap, x) = Xv /\ Deref(heap, y) = Yv

\* the per-key path of merge_hash on values, both early returns left out
RECURSIVE general_path(_, _, _, _)
general_path(xv, yv, rec, lm) ==
    LET xs(k) == xv.map[k].elems
        ys(k) == yv.map[k].elems
        kept(k) == SelectSeq(xs(k), LAMBDA z : \A i \in 1..Len(ys(k)) : ys(k)[i] # z)
    IN Dict([k \in DOMAIN xv.map \cup DOMAIN yv.map |->
            IF k \notin DOMAIN yv.map THEN xv.map[k]
            ELSE IF k \notin DOMAIN xv.map THEN yv.map[k]
            ELSE IF BothDict(xv, yv, k) THEN
                IF rec THEN general_path(xv.map[k], yv.map[k], rec, lm) ELSE yv.map[k]
            ELSE IF BothSeq(xv, yv, k) THEN
                IF lm = "replace" THEN yv.map[k]
                ELSE IF lm = "append" THEN List(xs(k) \o ys(k))
                ELSE IF lm = "prepend" THEN List(ys(k) \o xs(k))
                ELSE IF lm = "append_rp" THEN List(kept(k) \o ys(k))
                ELSE IF lm = "prepend_rp" THEN List(ys(k) \o kept(k))
                ELSE xv.map[k]
            ELSE yv.map[k]])

\* C3: whenever merge_hash returns, fast path or not and at any depth, its
\* result is the one of the per-key path without the fast paths.
C3_FastPathsPure ==
    Returned /\ x # 0 => Rv = general_path(Xv, Yv, recursive, list_merge)

\* every pair of sequences under a key of xv and yv is concatenated in rv
C4_Concat(xv, yv, rv) ==
    \A k \in InBoth(xv, yv) :
        BothSeq(xv, yv, k) =>
            rv.map[k] = IF list_merge = "append"
                        THEN List(xv.map[k].elems \o yv.map[k].elems)
                        ELSE List(yv.map[k].elems \o xv.map[k].elems)

\* C4: a key of both operands holding two sequences gets xv followed by yv
\* under 'append' and yv followed by xv under 'prepend', duplicates kept; so
\* do the sequences met when nested mappings are merged recursively.
C4_AppendPrepend ==
    Returned /\ x # 0 /\ list_merge \in {"append", "prepend"} =>
        /\ C4_Concat(Xv, Yv, Rv)
        /\ recursive => \A k \in InBoth(Xv, Yv) :
                            BothDict(Xv, Yv, k) => C4_Concat(Xv.map[k], Yv.map[k], Rv.map[k])

\* the elements of xs equal to no element of ys, in order
C5_Survivors(xs, ys) == SelectSeq(xs, LAMBDA z : \A i \in 1..Len(ys) : ys[i] # z)

\* every pair of sequences under a key of xv and yv is combined in rv as the
\* _rp policies say
C5_Rp(xv, yv, rv) ==
    \A k \in InBoth(xv, yv) :
        BothSeq(xv, yv, k) =>
            LET xs == xv.map[k].elems
                ys == yv.map[k].elems
            IN rv.map[k] = IF list_merge = "append_rp"
                           THEN List(C5_Survivors(xs, ys) \o ys)
                           ELSE List(ys \o C5_Survivors(xs, ys))

\* C5: under 'append_rp' a key of both operands holding two sequences gets
\* the elements of xv equal to no element of yv, in order, then all of yv;
\* under 'prepend_rp' all of yv, then those elements.  Nothing else is dropped.
C5_RemovePresent ==
    Returned /\ x # 0 /\ list_merge \in {"append_rp", "prepend_rp"} =>
        /\ C5_Rp(Xv, Yv, Rv)
        /\ recursive => \A k \in InBoth(Xv, Yv) :
                            BothDict(Xv, Yv, k) => C5_Rp(Xv.map[k], Yv.map[k], Rv.map[k])

HasDup(es) == \E i, j \in 1..Len(es) : i < j /\ es[i] = es[j]

\* an element of xv was dropped while yv keeps its duplicates
C5_Witness ==
    /\ Returned /\ x # 0 /\ list_merge = "append_rp" /\ Xv # Yv
    /\ \E k \in Keys : /\ BothSeq(Xv, Yv, k)
                       /\ HasDup(Yv.map[k].elems)
                       /\ C5_Survivors(Xv.map[k].elems, Yv.map[k].elems) # <<>>
                       /\ Len(Rv.map[k].elems) < Len(Xv.map[k].elems) + Len(Yv.map[k].elems)
                       /\ HasDup(Rv.map[k].elems)

\* C6: a key of both operands whose values are not two mappings and not two
\* sequences gets y's value, under every policy; a key of x alone keeps x's
\* value and a key of y alone gets y's.
C6_RightPrecedence ==
    Returned /\ x # 0 =>
        /\ \A k \in InBoth(Xv, Yv) :
               ~BothDict(Xv, Yv, k) /\ ~BothSeq(Xv, Yv, k) => Rv.map[k] = Yv.map[k]
        /\ \A k \in DOMAIN Xv.map \ DOMAIN Yv.map : k \in DOMAIN Rv.map /\ Rv.map[k] = Xv.map[k]
        /\ \A k \in DOMAIN Yv.map \ DOMAIN Xv.map : k \in DOMAIN Rv.map /\ Rv.map[k] = Yv.map[k]

\* under 'keep': a sequence meets a mapping and y's mapping is stored, while
\* a key that only x has keeps its value
C6_Witness ==
    /\ Returned /\ x # 0 /\ list_merge = "keep"
    /\ \E k \in InBoth(Xv, Yv) : /\ Xv.map[k].kind = "list" /\ Yv.map[k].kind = "dict"
                                 /\ Rv.map[k] = Yv.map[k]
    /\ \E k \in DOMAIN Xv.map \ DOMAIN Yv.map : Rv.map[k] = Xv.map[k]

\* C7: a key of both operands holding two mappings gets, when recursive,
\* merge_hash of the two with the same recursive and list_merge, and when
\* not recursive, y's mapping as it is.
C7_NestedMappings ==
    Returned /\ x # 0 =>
        \A k \in InBoth(Xv, Yv) :
            BothDict(Xv, Yv, k) =>
                IF recursive
                THEN LET sub == merge_hash(heap0, heap0[x].map[k], heap0[y].map[k],
                                           recursive, list_merge)
                     IN sub.exc = "" /\ Rv.map[k] = Deref(sub.h, sub.ret)
                ELSE Rv.map[k] = Yv.map[k]

\* recursive, under a policy other than 'replace': the nested mappings hold
\* two sequences that get combined, and a key of x's mapping alone survives
C7_Witness ==
    /\ Returned /\ x # 0 /\ recursive /\ list_merge = "prepend"
    /\ \E k \in InBoth(Xv, Yv) :
        /\ BothDict(Xv, Yv, k)
        /\ BothSeq(Xv.map[k], Yv.map[k], "p")
        /\ "q" \in DOMAIN Xv.map[k].map \ DOMAIN Yv.map[k].map
        /\ Rv.map[k].map["p"] = List(Yv.map[k].map["p"].elems \o Xv.map[k].map["p"].elems)
        /\ Rv.map[k].map["p"] # Yv.map[k].map["p"]
        /\ "q" \in DOMAIN Rv.map[k].map

Mv == Deref(heap0, mylist)

IsMarker(v) == v.kind = "none" \/ (v.kind = "str" /\ v.sv \in {"None", "null"})
IsSeqV(v)   == v.kind \in {"list", "tuple"}
Splices(lv) == lv.is_none \/ lv.n >= 1
Below(lv)   == IF lv.is_none THEN lv ELSE Levels(lv.n - 1)

\* the traversal that ends for good at the first marker met, at the top or
\* in a nested sequence being spliced: what is output, and whether it ended
RECURSIVE C9_StopAll(_, _)
C9_StopAll(es, lv) ==
    IF es = <<>> THEN [out |-> <<>>, stopped |-> FALSE]
    ELSE LET e == Head(es) IN
         IF IsMarker(e) THEN [out |-> <<>>, stopped |-> TRUE]
         ELSE IF IsSeqV(e) /\ Splices(lv) THEN
             LET f == C9_StopAll(e.elems, Below(lv)) IN
             IF f.stopped THEN f
             ELSE LET r == C9_StopAll(Tail(es), lv)
                  IN [out |-> f.out \o r.out, stopped |-> r.stopped]
         ELSE LET r == C9_StopAll(Tail(es), lv)
              IN [out |-> <<e>> \o r.out, stopped |-> r.stopped]

BeforeMarker(es) ==
    LET ms == {i \in 1..Len(es) : IsMarker(es[i])}
    IN IF ms = {} THEN es ELSE SubSeq(es, 1, (CHOOSE i \in ms : \A j \in ms : i <= j) - 1)

RECURSIVE C9_Splice(_, _), C9_Flat(_, _)
C9_Splice(es, lv) ==
    IF es = <<>> THEN <<>>
    ELSE (IF IsSeqV(Head(es)) /\ Splices(lv)
          THEN C9_Flat(Head(es).elems, Below(lv))
          ELSE <<Head(es)>>) \o C9_Splice(Tail(es), lv)
C9_Flat(es, lv) == C9_Splice(BeforeMarker(es), lv)

Dictionaries == flatten(heap0, terms, Levels(1))
NDocs        == Len(Dictionaries.h[Dictionaries.ret].elems)
Resolved     == recursive_check_defined(Dictionaries.h, Dictionaries.ret)

\* acc = merge_hash(acc, dictionaries[i]) for i, i+1, ... up to the last
RECURSIVE left_to_right(_, _, _, _, _, _)
left_to_right(h, dictionaries, i, acc, rec, lm) ==
    IF i > Len(h[dictionaries].elems) THEN Return(h, acc)
    ELSE LET m == merge_hash(h, acc, h[dictionaries].elems[i], rec, lm)
         IN IF m.exc # "" THEN m
            ELSE left_to_right(m.h, dictionaries, i + 1, m.ret, rec, lm)

\* C2: with two or more documents, combine's fold from the last document
\* down to the first ends as the fold from the first up to the last does.
C2_FoldOrder ==
    pc = "done" /\ terms # 0 /\ ~kwargs /\ Resolved /\ NDocs >= 2 =>
        LET D == Dictionaries
            l == left_to_right(D.h, D.ret, 2, D.h[D.ret].elems[1], recursive, list_merge)
        IN /\ exc = l.exc
           /\ exc = "" => Rv = Deref(l.h, l.ret)

\* C10 -------------------------------------------------------------------

\* C10 as stated: with a list_merge outside the six values, merge_hash and
\* combine (given no other keyword and resolved documents) raise InvalidPolicy.
C10_AlwaysInvalidPolicy ==
    pc = "done" /\ list_merge \notin ListMergePolicies /\ ~kwargs
        /\ (terms # 0 => Resolved) => exc = "InvalidPolicy"

\* C10 amended: with a list_merge outside the six values, merge_hash raises
\* InvalidPolicy whatever its operands and leaves the heap as it was; combine,
\* given no other keyword and resolved documents, raises it when two or more
\* documents are left after flattening, and otherwise returns without looking
\* at list_merge: an empty mapping for no document, the document itself for one.
C10_InvalidPolicy ==
    pc = "done" /\ list_merge \notin ListMergePolicies =>
        /\ x # 0 => exc = "InvalidPolicy" /\ heap = heap0
        /\ terms # 0 /\ ~kwargs /\ Resolved =>
            /\ NDocs >= 2 => exc = "InvalidPolicy"
            /\ NDocs = 0 => exc = "" /\ Rv = Dict(<<>>)
            /\ NDocs = 1 => exc = "" /\ ret = Dictionaries.h[Dictionaries.ret].elems[1]

\* combine raised InvalidPolicy on two documents that are no mappings
C10_Witness ==
    /\ pc = "done" /\ terms # 0 /\ list_merge = "bogus" /\ ~kwargs /\ Resolved
    /\ NDocs = 2
    /\ \A i \in 1..2 : Dictionaries.h[Dictionaries.h[Dictionaries.ret].elems[i]].kind = "str"
    /\ exc = "InvalidPolicy"

====
